---------------------------- MODULE Spec2Model ----------------------------
(***************************************************************************)
(* Incident triage service: the classifier client (OpenAIService), the     *)
(* orchestrator (IncidentUseCase) and the incident store                   *)
(* (MySQLIncidentRepository over the incidents table).                     *)
(*                                                                         *)
(* Requests run concurrently; each one is a sequence of blocking calls     *)
(* (external model, database statement), and a step of the model is one    *)
(* such call together with the code that follows it up to the next call.   *)
(***************************************************************************)
EXTENDS Integers, Sequences, FiniteSets, TLC

(***************************************************************************)
(* Bounds of the model.                                                    *)
(***************************************************************************)
\* number of rows the AUTO_INCREMENT counter may hand out
MaxId == 2
\* last reading of the wall clock, in ticks
MaxClock == 1
\* clock ticks per second: time.Now() is finer than a TIMESTAMP column
TicksPerSecond == 2
\* number of requests served in one behaviour
MaxRequests == 3

Procs == {"p1", "p2"}

(***************************************************************************)
(* Classifier client: internal/service/openai_service.go                   *)
(***************************************************************************)
validSeverities == <<"Low", "Medium", "High", "Critical">>

validCategories ==
    <<"Network", "Software", "Hardware", "Security", "Database", "Application",
      "Infrastructure">>

containsFirstOnly(slice, item) == Len(slice) > 0 /\ slice[1] = item

\* contains checks if a slice contains a specific string
contains(slice, item) == \E i \in 1..Len(slice) : slice[i] = item

\* error values: a message prefix, the identifier formatted into it (0: none)
\* and the text of the wrapped cause ("" : none)
NoErr == [msg |-> "", id |-> 0, cause |-> ""]

Errorf(msg, id, cause) == [msg |-> msg, id |-> id, cause |-> cause]

\* texts the external model may put in the two fields
SeverityTexts == {"Low", "Medium", "High", "Critical", "Invalid", "low", "", "Software"}

CategoryTexts ==
    {"Network", "Software", "Hardware", "Security", "Database", "Application",
     "Infrastructure", "Invalid", "", "High"}

\* a member of a JSON object as the decoder sees it: absent, null, a number
\* (wrong type for a Go string), or a string with its text
Absent == [t |-> "absent", v |-> ""]

JsonNull == [t |-> "null", v |-> ""]

JsonNumber == [t |-> "number", v |-> ""]

JsonString(s) == [t |-> "string", v |-> s]

FieldsOf(texts) == {Absent, JsonNull, JsonNumber} \cup {JsonString(s) : s \in texts}

\* the text of a completion: not JSON at all, the JSON value null, a JSON array,
\* or a JSON object with its severity and category members
Malformed == [json |-> "malformed", severity |-> Absent, category |-> Absent]

TopNull == [json |-> "null", severity |-> Absent, category |-> Absent]

TopArray == [json |-> "array", severity |-> Absent, category |-> Absent]

Object(s, c) == [json |-> "object", severity |-> s, category |-> c]

Contents ==
    {Malformed, TopNull, TopArray}
        \cup {Object(s, c) : s \in FieldsOf(SeverityTexts), c \in FieldsOf(CategoryTexts)}

\* a second completion, which the client never reads
OtherContents == {Malformed, Object(JsonString("Low"), JsonString("Network"))}

\* what CreateChatCompletion returns: an error, or a list of choices
TransportError == [err |-> TRUE, cause |-> "API error", Choices |-> <<>>]

Completion(choices) == [err |-> FALSE, cause |-> "", Choices |-> choices]

Responses ==
    {TransportError, Completion(<<>>)}
        \cup {Completion(<<c>>) : c \in Contents}
        \cup {Completion(<<c, d>>) : c \in Contents, d \in OtherContents}

\* domain.IncidentAnalysis, and the nil pointer returned with an error
NilAnalysis == [nil |-> TRUE, Severity |-> "", Category |-> ""]

IncidentAnalysis(s, c) == [nil |-> FALSE, Severity |-> s, Category |-> c]

\* encoding/json into a Go string field: a string is stored, an absent member
\* or null leaves the zero value
DecodeString(f) == IF f.t = "string" THEN f.v ELSE ""

\* json.Unmarshal([]byte(content), &analysis): a syntax error, a non-object
\* value or a member of the wrong type is an error; null is a no-op
Unmarshal(content) ==
    [err |-> \/ content.json \in {"malformed", "array"}
             \/ /\ content.json = "object"
                /\ "number" \in {content.severity.t, content.category.t},
     Severity |-> DecodeString(content.severity),
     Category |-> DecodeString(content.category)]

ValidateSeverityNone(s) == s

\* Validate severity
ValidateSeverity(s) == IF contains(validSeverities, s) THEN s ELSE "Medium"

ValidateCategoryNone(c) == c

\* Validate category
ValidateCategory(c) == IF contains(validCategories, c) THEN c ELSE "Software"

AnalyzeIncidentUnvalidated(resp) ==
    IF resp.err \/ Len(resp.Choices) = 0 \/ Unmarshal(resp.Choices[1]).err
    THEN [analysis |-> NilAnalysis, err |-> Errorf("failed to get AI analysis", 0, "")]
    ELSE [analysis |->
              IncidentAnalysis(Unmarshal(resp.Choices[1]).Severity,
                               Unmarshal(resp.Choices[1]).Category),
          err |-> NoErr]

\* the OPENAI_API_KEY variable of the process environment: not set, or set to
\* a value
Unset == [set |-> FALSE, value |-> ""]

Setenv(v) == [set |-> TRUE, value |-> v]

Environments == {Unset, Setenv(""), Setenv("sk-1"), Setenv("sk-2")}

\* os.Getenv: the value of the variable, "" when it is not set
Getenv(e) == IF e.set THEN e.value ELSE ""

\* what the caller of NewOpenAIService holds: nothing yet, nothing because
\* the constructor panicked, or &OpenAIService{client} built with a key
NoClient == [state |-> "none", apiKey |-> ""]

Panicked == [state |-> "panicked", apiKey |-> ""]

Client(apiKey) == [state |-> "built", apiKey |-> apiKey]

NewOpenAIServiceDeferred(e) == Client(Getenv(e))

\* NewOpenAIService creates a new OpenAI service instance
NewOpenAIService(e) == IF Getenv(e) = "" THEN Panicked ELSE Client(Getenv(e))

CreateChatCompletionCallsWithRetry(resp) == IF resp.err THEN 2 ELSE 1

\* the requests one AnalyzeIncident call sends to the external service: the
\* single s.client.CreateChatCompletion call, whatever it returns
CreateChatCompletionCalls(resp) == 1

AnalyzeIncidentDefaultsOnFailure(resp) ==
    IF resp.err \/ Len(resp.Choices) = 0
    THEN [analysis |-> IncidentAnalysis("Medium", "Software"), err |-> NoErr]
    ELSE LET u == Unmarshal(resp.Choices[1])
         IN  IF u.err
             THEN [analysis |-> NilAnalysis,
                   err |-> Errorf("failed to parse AI response", 0, "json")]
             ELSE [analysis |->
                       IncidentAnalysis(ValidateSeverity(u.Severity),
                                        ValidateCategory(u.Category)),
                   err |-> NoErr]

\* OpenAIService.AnalyzeIncident, as a function of what the external call
\* returned
AnalyzeIncident(resp) ==
    IF resp.err
    THEN [analysis |-> NilAnalysis,
          err |-> Errorf("failed to get AI analysis", 0, resp.cause)]
    ELSE IF Len(resp.Choices) = 0
    THEN [analysis |-> NilAnalysis, err |-> Errorf("no response from AI service", 0, "")]
    ELSE LET u == Unmarshal(resp.Choices[1])
         IN  IF u.err
             THEN [analysis |-> NilAnalysis,
                   err |-> Errorf("failed to parse AI response", 0, "json")]
             ELSE [analysis |->
                       IncidentAnalysis(ValidateSeverity(u.Severity),
                                        ValidateCategory(u.Category)),
                   err |-> NoErr]


(***************************************************************************)
(* State.                                                                  *)
(***************************************************************************)
VARIABLES
    store,      \* the incidents table: identifier -> row
    nextId,     \* the table's AUTO_INCREMENT counter
    clock,      \* the wall clock time.Now() reads, in ticks
    pc,         \* where each request in progress is
    req,        \* its arguments: id and CreateIncidentRequest
    incident,   \* the *domain.Incident it holds in memory
    calls,      \* history: the calls it has made so far
    ret,        \* the operation that returned last: arguments, calls, results
    served,     \* history: requests started
    classified, \* history: content and result of the successful classifier calls
    response,   \* classifier alone: what the external call returned
    analysed,   \* classifier alone: whether AnalyzeIncident has returned
    env,        \* the OPENAI_API_KEY environment variable
    client      \* the classifier client NewOpenAIService handed out

vars ==
    <<store, nextId, clock, pc, req, incident, calls, ret, served, response,
      analysed, env, client, classified>>

classifierVars == <<response, analysed, env, client>>

mainVars ==
    <<store, nextId, clock, pc, req, incident, calls, ret, served, classified>>

Ids == 1..MaxId

\* domain.CreateIncidentRequest values the request layer lets through
Requests ==
    {[Title |-> "T1", Description |-> "D1", AffectedService |-> "S1"],
     [Title |-> "T2", Description |-> "D2", AffectedService |-> "S2"]}

NoRequest == [id |-> 0, Title |-> "", Description |-> "", AffectedService |-> ""]

\* what the external model answers while requests are served
ServedResponses ==
    {TransportError,
     Completion(<<Malformed>>),
     Completion(<<Object(JsonString("High"), JsonString("Database"))>>),
     Completion(<<Object(JsonString("Invalid"), JsonString("Bogus")), Malformed>>)}

\* a database statement fails with this cause; "": it does not fail
DbFaults == {"", "connection lost"}

\* domain.Incident; NilIncident is the nil pointer
NilIncident ==
    [nil |-> TRUE, ID |-> 0, Title |-> "", Description |-> "", AffectedService |-> "",
     AISeverity |-> "", AICategory |-> "", CreatedAt |-> 0, UpdatedAt |-> 0]

\* what a repository or classifier call hands back
Return(inc, err) == [incident |-> inc, incidents |-> <<>>, err |-> err]

\* history of one request: calls made, classifier calls that failed,
\* requests sent to the external service, and whether the row an update
\* fetched had been changed by another request when its classification
\* returned
NoCalls ==
    [AnalyzeIncident |-> 0, AnalyzeFailed |-> 0, CreateChatCompletion |-> 0,
     Create |-> 0, GetByID |-> 0, GetAll |-> 0, Update |-> 0, Delete |-> 0,
     RowChanged |-> 0]

NowMayStepBack(t) == 0..MaxClock

\* time.Now(): the clock may have advanced since it was last read
Now(t) == {t} \cup {u \in {t + 1} : u <= MaxClock}

(***************************************************************************)
(* Incident store: MySQLIncidentRepository over migrations/001.            *)
(***************************************************************************)
\* created_at, updated_at are TIMESTAMP columns without fractional seconds: a
\* value written is rounded to the second
Timestamp(t) == ((2 * t + TicksPerSecond) \div (2 * TicksPerSecond)) * TicksPerSecond

RowDefaultClassification(inc) ==
    [title |-> inc.Title, description |-> inc.Description,
     affected_service |-> inc.AffectedService, ai_severity |-> "Medium",
     ai_category |-> "Software", created_at |-> Timestamp(inc.CreatedAt),
     updated_at |-> Timestamp(inc.UpdatedAt)]

\* the column values of an INSERT or UPDATE of this incident
Row(inc) ==
    [title |-> inc.Title, description |-> inc.Description,
     affected_service |-> inc.AffectedService, ai_severity |-> inc.AISeverity,
     ai_category |-> inc.AICategory, created_at |-> Timestamp(inc.CreatedAt),
     updated_at |-> Timestamp(inc.UpdatedAt)]

\* rows.Scan / QueryRow.Scan into a domain.Incident
Scan(id, row) ==
    [nil |-> FALSE, ID |-> id, Title |-> row.title, Description |-> row.description,
     AffectedService |-> row.affected_service, AISeverity |-> row.ai_severity,
     AICategory |-> row.ai_category, CreatedAt |-> row.created_at,
     UpdatedAt |-> row.updated_at]

NotFound(id) == Errorf("incident not found with id", id, "")

GetByIDZeroValue(id, fault) ==
    IF fault # ""
    THEN Return(NilIncident, Errorf("failed to get incident", 0, fault))
    ELSE IF id \notin DOMAIN store
    THEN Return([NilIncident EXCEPT !.nil = FALSE], NoErr)
    ELSE Return(Scan(id, store[id]), NoErr)

\* MySQLIncidentRepository.GetByID
GetByID(id, fault) ==
    IF fault # ""
    THEN Return(NilIncident, Errorf("failed to get incident", 0, fault))
    ELSE IF id \notin DOMAIN store
    THEN Return(NilIncident, NotFound(id))
    ELSE Return(Scan(id, store[id]), NoErr)

UpdatedRowKeepsUpdatedAt(old, inc) ==
    [Row(inc) EXCEPT !.created_at = old.created_at, !.updated_at = old.updated_at]

UpdatedRowTouchesCreatedAt(old, inc) ==
    [Row(inc) EXCEPT !.created_at = Timestamp(inc.UpdatedAt)]

UpdatedRowKeepsContent(old, inc) ==
    [Row(inc) EXCEPT
        !.created_at = old.created_at,
        !.title = old.title,
        !.description = old.description,
        !.affected_service = old.affected_service]

UpdatedRowKeepsClassification(old, inc) ==
    [Row(inc) EXCEPT
        !.created_at = old.created_at,
        !.ai_severity = old.ai_severity,
        !.ai_category = old.ai_category]

\* the row an UPDATE leaves: the six assigned columns, created_at kept
UpdatedRow(old, inc) == [Row(inc) EXCEPT !.created_at = old.created_at]

\* result.RowsAffected() of the UPDATE: the connection is opened without
\* clientFoundRows, so a matched row that the statement does not change is
\* not counted
UpdateRowsAffected(inc) ==
    IF inc.ID \in DOMAIN store /\ UpdatedRow(store[inc.ID], inc) # store[inc.ID]
    THEN 1
    ELSE 0

UpdateStatementUpsert(inc) ==
    IF inc.ID \in DOMAIN store
    THEN [store EXCEPT ![inc.ID] = UpdatedRow(@, inc)]
    ELSE (inc.ID :> Row(inc)) @@ store

\* the table after UPDATE incidents SET ... WHERE id = ?
UpdateStatement(inc) ==
    IF inc.ID \in DOMAIN store
    THEN [store EXCEPT ![inc.ID] = UpdatedRow(@, inc)]
    ELSE store

\* result.RowsAffected() of the DELETE
DeleteRowsAffected(id) == IF id \in DOMAIN store THEN 1 ELSE 0

DeleteStatementSoft(id) == store

\* the table after DELETE FROM incidents WHERE id = ?
DeleteStatement(id) == [i \in DOMAIN store \ {id} |-> store[i]]

IsPermutation(seq, S) ==
    /\ Len(seq) = Cardinality(S)
    /\ {seq[i] : i \in 1..Len(seq)} = S

OrderedByIdAsc(seq) == \A i, j \in 1..Len(seq) : i < j => seq[i] < seq[j]

\* ORDER BY created_at DESC; rows of equal created_at come in any order
OrderedByCreatedAtDesc(seq) ==
    \A i, j \in 1..Len(seq) : i < j => store[seq[i]].created_at >= store[seq[j]].created_at

\* the result sets the SELECT of GetAll may produce, as identifier sequences
GetAllOrders ==
    {seq \in UNION {[1..n -> DOMAIN store] : n \in {Cardinality(DOMAIN store)}} :
        IsPermutation(seq, DOMAIN store) /\ OrderedByCreatedAtDesc(seq)}

(***************************************************************************)
(* Request layer: IncidentHandler.                                         *)
(***************************************************************************)
\* strconv.Itoa: the decimal text of an identifier
Itoa == [i \in Ids |-> ToString(i)]

\* the :id path parameter, as the text of the URL
IdParams == {Itoa[i] : i \in Ids} \cup {"abc"}

\* strconv.Atoi(idStr)
Atoi(s) ==
    IF \E i \in Ids : Itoa[i] = s
    THEN [err |-> FALSE, n |-> CHOOSE i \in Ids : Itoa[i] = s]
    ELSE [err |-> TRUE, n |-> 0]

\* a request body: text that is not JSON, or a JSON object with its title,
\* description and affected_service members
MalformedBody ==
    [json |-> "malformed", title |-> Absent, description |-> Absent,
     affected_service |-> Absent]

JsonBody(t, d, a) ==
    [json |-> "object", title |-> t, description |-> d, affected_service |-> a]

\* the routes without a body
NoBody == JsonBody(Absent, Absent, Absent)

Bodies ==
    {JsonBody(JsonString(r.Title), JsonString(r.Description),
              JsonString(r.AffectedService)) : r \in Requests}
        \cup {MalformedBody,
              JsonBody(JsonString("T1"), Absent, Absent),
              JsonBody(JsonString(""), JsonString("D1"), JsonString("S1")),
              JsonBody(JsonString("T1"), JsonString("D1"), JsonNumber)}

\* c.Bind(&req) into a domain.CreateIncidentRequest: a syntax error or a
\* member of the wrong type is an error, an absent member or null leaves ""
Bind(body) ==
    [err |-> \/ body.json = "malformed"
             \/ "number" \in {body.title.t, body.description.t, body.affected_service.t},
     req |-> [Title |-> DecodeString(body.title),
              Description |-> DecodeString(body.description),
              AffectedService |-> DecodeString(body.affected_service)]]

\* the response of a handler: status and message; the incident or the list
\* that goes with a success is in the record of the return
HTTPResponse(status, message) == [status |-> status, message |-> message]

\* the handler goes on to the orchestrator
Accepted == HTTPResponse(0, "")

WithParam == {"GetIncident", "UpdateIncident", "DeleteIncident"}

WithBody == {"CreateIncident", "UpdateIncident"}

Handlers == WithParam \cup WithBody \cup {"GetAllIncidents"}

\* what a request to the handler carries
ParamsOf(handler) == IF handler \in WithParam THEN IdParams ELSE {""}

BodiesOf(handler) == IF handler \in WithBody THEN Bodies ELSE {NoBody}

PrecheckUnvalidated(handler, param, body) ==
    IF handler \in WithParam /\ Atoi(param).err
    THEN HTTPResponse(400, "Invalid incident ID")
    ELSE IF handler \in WithBody /\ Bind(body).err
    THEN HTTPResponse(400, "Invalid request body")
    ELSE Accepted

\* the part of a handler before the orchestrator is called: the path
\* parameter, the binding of the body, the basic validation
Precheck(handler, param, body) ==
    IF handler \in WithParam /\ Atoi(param).err
    THEN HTTPResponse(400, "Invalid incident ID")
    ELSE IF handler \in WithBody /\ Bind(body).err
    THEN HTTPResponse(400, "Invalid request body")
    ELSE IF /\ handler \in WithBody
            /\ \/ Bind(body).req.Title = ""
               \/ Bind(body).req.Description = ""
               \/ Bind(body).req.AffectedService = ""
    THEN HTTPResponse(400, "Title, description, and affected service are required")
    ELSE Accepted

\* the requests a handler passes on to the orchestrator, as the identifier
\* and the request it calls it with
AcceptedCalls ==
    [handler \in Handlers |->
        {[id |-> Atoi(rq[1]).n, req |-> Bind(rq[2]).req] :
            rq \in {x \in ParamsOf(handler) \X BodiesOf(handler) :
                        Precheck(handler, x[1], x[2]) = Accepted}}]

\* the answers a handler gives to the requests it does not pass on
RejectedResponses ==
    [handler \in Handlers |->
        {Precheck(handler, x[1], x[2]) : x \in ParamsOf(handler) \X BodiesOf(handler)}
            \ {Accepted}]

\* err.Error(): the message, the identifier formatted into it, and the
\* wrapped cause after ": "
ErrorText(err) ==
    err.msg \o (IF err.id # 0 THEN " " \o ToString(err.id) ELSE "")
            \o (IF err.cause # "" THEN ": " \o err.cause ELSE "")

RespondUniform(handler, err) ==
    IF err # NoErr
    THEN HTTPResponse(500, "Internal server error")
    ELSE HTTPResponse(200, "")

\* the part of a handler after the orchestrator has returned
Respond(handler, err) ==
    CASE handler = "CreateIncident" ->
             IF err # NoErr
             THEN HTTPResponse(500, "Failed to create incident: " \o ErrorText(err))
             ELSE HTTPResponse(201, "Incident created successfully")
      [] handler = "GetIncident" ->
             IF err # NoErr
             THEN HTTPResponse(404, "Incident not found")
             ELSE HTTPResponse(200, "")
      [] handler = "GetAllIncidents" ->
             IF err # NoErr
             THEN HTTPResponse(500, "Failed to retrieve incidents: " \o ErrorText(err))
             ELSE HTTPResponse(200, "")
      [] handler = "UpdateIncident" ->
             IF err # NoErr
             THEN HTTPResponse(500, "Failed to update incident: " \o ErrorText(err))
             ELSE HTTPResponse(200, "Incident updated successfully")
      [] handler = "DeleteIncident" ->
             IF err # NoErr
             THEN HTTPResponse(500, "Failed to delete incident: " \o ErrorText(err))
             ELSE HTTPResponse(200, "Incident deleted successfully")

(***************************************************************************)
(* Initial state: an empty table, no request in progress.                  *)
(***************************************************************************)
NoReturn ==
    [op |-> "", req |-> NoRequest, calls |-> NoCalls,
     incident |-> NilIncident, incidents |-> <<>>, err |-> NoErr,
     handler |-> "", http |-> Accepted]

MainInit ==
    /\ store = <<>>
    /\ nextId = 1
    /\ clock = 0
    /\ pc = [p \in Procs |-> "idle"]
    /\ req = [p \in Procs |-> NoRequest]
    /\ incident = [p \in Procs |-> NilIncident]
    /\ calls = [p \in Procs |-> NoCalls]
    /\ ret = NoReturn
    /\ served = 0
    /\ classified = {}

\* main: the key is configured and the client is built before the routes
\* are served
Init ==
    /\ MainInit
    /\ response = TransportError
    /\ analysed = FALSE
    /\ env = Setenv("sk-1")
    /\ client = Client("sk-1")

Args(id, r) ==
    [id |-> id, Title |-> r.Title, Description |-> r.Description,
     AffectedService |-> r.AffectedService]

Count(c, name) == [c EXCEPT ![name] = @ + 1]

\* the row of the fetched incident is no longer what the fetch returned
RowChanged(inc) ==
    IF inc.ID \in DOMAIN store /\ Scan(inc.ID, store[inc.ID]) = inc THEN 0 ELSE 1

CountAnalysis(c, resp, a) ==
    [c EXCEPT
        !.AnalyzeIncident = @ + 1,
        !.AnalyzeFailed = @ + (IF a.err # NoErr THEN 1 ELSE 0),
        !.CreateChatCompletion = @ + CreateChatCompletionCalls(resp)]

\* s.aiService.AnalyzeIncident(req.Title, req.Description, req.AffectedService)
\* has returned a: what was classified, and as what
Classified(r, a) ==
    [Title |-> r.Title, Description |-> r.Description,
     AffectedService |-> r.AffectedService, Severity |-> a.analysis.Severity,
     Category |-> a.analysis.Category]

Record(r, a) ==
    classified' = IF a.err = NoErr THEN classified \cup {Classified(r, a)} ELSE classified

\* a request arrives at a free worker and an orchestrator operation is entered
Begin(p) ==
    /\ pc[p] = "idle"
    /\ served < MaxRequests
    /\ served' = served + 1

\* the operation goes on to its next call
Goto(p, label, args, inc, c) ==
    /\ pc' = [pc EXCEPT ![p] = label]
    /\ req' = [req EXCEPT ![p] = args]
    /\ incident' = [incident EXCEPT ![p] = inc]
    /\ calls' = [calls EXCEPT ![p] = c]
    /\ UNCHANGED ret

\* the operation returns, and the handler that called it answers
Done(p, name, args, c, value) ==
    /\ ret' =
           [op |-> name, req |-> args, calls |-> c,
            incident |-> value.incident, incidents |-> value.incidents,
            err |-> value.err, handler |-> name, http |-> Respond(name, value.err)]
    /\ pc' = [pc EXCEPT ![p] = "idle"]
    /\ req' = [req EXCEPT ![p] = NoRequest]
    /\ incident' = [incident EXCEPT ![p] = NilIncident]
    /\ calls' = [calls EXCEPT ![p] = NoCalls]

(***************************************************************************)
(* Orchestrator: IncidentUseCase.                                          *)
(***************************************************************************)
CreateIncidentNeverAborts(a) == FALSE

\* CreateIncident: if err != nil { return nil, err } after the classification
CreateIncidentAborts(a) == a.err # NoErr

UpdateIncidentNeverAborts(a) == FALSE

\* UpdateIncident: if err != nil { return nil, err } after the classification
UpdateIncidentAborts(a) == a.err # NoErr

\* CreateIncident, up to the store call: classify, then build the incident
CreateIncident_Analyze(p) ==
    \E call \in AcceptedCalls["CreateIncident"], resp \in ServedResponses :
        LET r == call.req
            a == AnalyzeIncident(resp)
            c == CountAnalysis(NoCalls, resp, a)
        IN  /\ Begin(p)
            /\ nextId + Cardinality({q \in Procs : pc[q] = "create_persist"}) <= MaxId
            /\ IF CreateIncidentAborts(a)
               THEN /\ Done(p, "CreateIncident", Args(0, r), c, Return(NilIncident, a.err))
                    /\ UNCHANGED clock
               ELSE \E t1 \in Now(clock) :
                        \E t2 \in Now(t1) :
                            /\ Goto(p, "create_persist", Args(0, r),
                                    [nil |-> FALSE, ID |-> 0, Title |-> r.Title,
                                     Description |-> r.Description,
                                     AffectedService |-> r.AffectedService,
                                     AISeverity |-> a.analysis.Severity,
                                     AICategory |-> a.analysis.Category,
                                     CreatedAt |-> t1, UpdatedAt |-> t2],
                                    c)
                            /\ clock' = t2
            /\ Record(r, a)
            /\ UNCHANGED <<store, nextId>>

CreateIncident_PersistAtRowCount(p) ==
    \E fault \in DbFaults :
        LET c == Count(calls[p], "Create")
            id == Cardinality(DOMAIN store) + 1
        IN  /\ pc[p] = "create_persist"
            /\ IF fault # ""
               THEN /\ Done(p, "CreateIncident", req[p], c,
                            Return(NilIncident, Errorf("failed to create incident", 0, fault)))
                    /\ UNCHANGED <<store, nextId>>
               ELSE /\ store' = (id :> Row(incident[p])) @@ store
                    /\ nextId' = nextId + 1
                    /\ Done(p, "CreateIncident", req[p], c,
                            Return([incident[p] EXCEPT !.ID = id], NoErr))
            /\ UNCHANGED <<clock, served, classified>>

\* CreateIncident, the store call (MySQLIncidentRepository.Create) and return
CreateIncident_Persist(p) ==
    \E fault \in DbFaults :
        LET c == Count(calls[p], "Create")
        IN  /\ pc[p] = "create_persist"
            /\ IF fault # ""
               THEN /\ Done(p, "CreateIncident", req[p], c,
                            Return(NilIncident, Errorf("failed to create incident", 0, fault)))
                    /\ UNCHANGED <<store, nextId>>
               ELSE /\ store' = (nextId :> Row(incident[p])) @@ store
                    /\ nextId' = nextId + 1
                    /\ Done(p, "CreateIncident", req[p], c,
                            Return([incident[p] EXCEPT !.ID = nextId], NoErr))
            /\ UNCHANGED <<clock, served, classified>>

\* GetIncident: MySQLIncidentRepository.GetByID
GetIncidentReclassifying(p) ==
    \E call \in AcceptedCalls["GetIncident"], fault \in DbFaults :
        /\ Begin(p)
        /\ Done(p, "GetIncident", Args(call.id, NoRequest),
                Count(Count(NoCalls, "GetByID"), "AnalyzeIncident"),
                GetByID(call.id, fault))
        /\ UNCHANGED <<store, nextId, clock, classified>>

GetIncident(p) ==
    \E call \in AcceptedCalls["GetIncident"], fault \in DbFaults :
        LET id == call.id
        IN  /\ Begin(p)
            /\ Done(p, "GetIncident", Args(id, NoRequest), Count(NoCalls, "GetByID"),
                    GetByID(id, fault))
            /\ UNCHANGED <<store, nextId, clock, classified>>

\* GetAllIncidents: MySQLIncidentRepository.GetAll
GetAllIncidents(p) ==
    \E fault \in DbFaults, order \in GetAllOrders :
        /\ Begin(p)
        /\ Done(p, "GetAllIncidents", NoRequest, Count(NoCalls, "GetAll"),
                IF fault # ""
                THEN Return(NilIncident, Errorf("failed to query incidents", 0, fault))
                ELSE [incident |-> NilIncident,
                      incidents |-> [i \in 1..Len(order) |-> Scan(order[i], store[order[i]])],
                      err |-> NoErr])
        /\ UNCHANGED <<store, nextId, clock, classified>>

\* UpdateIncident, the fetch: Get existing incident
UpdateIncident_Fetch(p) ==
    \E call \in AcceptedCalls["UpdateIncident"], fault \in DbFaults :
        LET id == call.id
            r == call.req
            g == GetByID(id, fault)
            c == Count(NoCalls, "GetByID")
        IN  /\ Begin(p)
            /\ IF g.err # NoErr
               THEN Done(p, "UpdateIncident", Args(id, r), c, Return(NilIncident, g.err))
               ELSE Goto(p, "update_analyze", Args(id, r), g.incident, c)
            /\ UNCHANGED <<store, nextId, clock, classified>>

UpdateIncident_AnalyzeIfChanged(p) ==
    /\ pc[p] = "update_analyze"
    /\ incident[p].Title = req[p].Title
    /\ incident[p].Description = req[p].Description
    /\ incident[p].AffectedService = req[p].AffectedService
    /\ \E t \in Now(clock) :
           /\ Goto(p, "update_persist", req[p], [incident[p] EXCEPT !.UpdatedAt = t],
                   calls[p])
           /\ clock' = t
    /\ UNCHANGED <<store, nextId, served, classified>>

\* UpdateIncident, the classification and the update of the fields in memory
UpdateIncident_Analyze(p) ==
    \E resp \in ServedResponses :
        LET a == AnalyzeIncident(resp)
            c == [CountAnalysis(calls[p], resp, a) EXCEPT
                     !.RowChanged = RowChanged(incident[p])]
        IN  /\ pc[p] = "update_analyze"
            /\ IF UpdateIncidentAborts(a)
               THEN /\ Done(p, "UpdateIncident", req[p], c, Return(NilIncident, a.err))
                    /\ UNCHANGED clock
               ELSE \E t \in Now(clock) :
                        /\ Goto(p, "update_persist", req[p],
                                [incident[p] EXCEPT
                                    !.Title = req[p].Title,
                                    !.Description = req[p].Description,
                                    !.AffectedService = req[p].AffectedService,
                                    !.AISeverity = a.analysis.Severity,
                                    !.AICategory = a.analysis.Category,
                                    !.UpdatedAt = t],
                                c)
                        /\ clock' = t
            /\ Record(req[p], a)
            /\ UNCHANGED <<store, nextId, served>>

\* UpdateIncident, the store call (MySQLIncidentRepository.Update) and return
UpdateIncident_Persist(p) ==
    \E fault \in DbFaults :
        LET c == Count(calls[p], "Update")
            inc == incident[p]
        IN  /\ pc[p] = "update_persist"
            /\ IF fault # ""
               THEN /\ Done(p, "UpdateIncident", req[p], c,
                            Return(NilIncident, Errorf("failed to update incident", 0, fault)))
                    /\ UNCHANGED store
               ELSE /\ store' = UpdateStatement(inc)
                    /\ Done(p, "UpdateIncident", req[p], c,
                            IF UpdateRowsAffected(inc) = 0
                            THEN Return(NilIncident, NotFound(inc.ID))
                            ELSE Return(inc, NoErr))
            /\ UNCHANGED <<nextId, clock, served, classified>>

\* DeleteIncident: MySQLIncidentRepository.Delete
DeleteIncident(p) ==
    \E call \in AcceptedCalls["DeleteIncident"], fault \in DbFaults :
        LET id == call.id
            c == Count(NoCalls, "Delete")
        IN  /\ Begin(p)
            /\ IF fault # ""
               THEN /\ Done(p, "DeleteIncident", Args(id, NoRequest), c,
                            Return(NilIncident, Errorf("failed to delete incident", 0, fault)))
                    /\ UNCHANGED store
               ELSE /\ store' = DeleteStatement(id)
                    /\ Done(p, "DeleteIncident", Args(id, NoRequest), c,
                            IF DeleteRowsAffected(id) = 0
                            THEN Return(NilIncident, NotFound(id))
                            ELSE Return(NilIncident, NoErr))
            /\ UNCHANGED <<nextId, clock, classified>>

\* a handler answers 400 before the orchestrator is called: the path
\* parameter is not an integer, the body cannot be bound, or a field is empty
Handler_BadRequest(p) ==
    \E handler \in Handlers :
        \E answer \in RejectedResponses[handler] :
            /\ Begin(p)
            /\ ret' = [NoReturn EXCEPT !.handler = handler, !.http = answer]
            /\ UNCHANGED <<store, nextId, clock, pc, req, incident, calls, classified>>

Next ==
    \E p \in Procs :
        \/ Handler_BadRequest(p) /\ UNCHANGED classifierVars
        \/ CreateIncident_Analyze(p) /\ UNCHANGED classifierVars
        \/ CreateIncident_Persist(p) /\ UNCHANGED classifierVars
        \/ GetIncident(p) /\ UNCHANGED classifierVars
        \/ GetAllIncidents(p) /\ UNCHANGED classifierVars
        \/ UpdateIncident_Fetch(p) /\ UNCHANGED classifierVars
        \/ UpdateIncident_Analyze(p) /\ UNCHANGED classifierVars
        \/ UpdateIncident_Persist(p) /\ UNCHANGED classifierVars
        \/ DeleteIncident(p) /\ UNCHANGED classifierVars

Spec == Init /\ [][Next]_vars

(***************************************************************************)
(* The classifier alone: AnalyzeIncident applied to every response.        *)
(***************************************************************************)
InitAnalyze ==
    /\ MainInit
    /\ response \in Responses
    /\ analysed = FALSE
    /\ env = Setenv("sk-1")
    /\ client = Client("sk-1")

\* a call on the client that was built returns
Analyze ==
    /\ client.state = "built"
    /\ ~analysed
    /\ analysed' = TRUE
    /\ UNCHANGED <<response, env, client, mainVars>>

\* the next call gets another answer
NextCall ==
    /\ analysed
    /\ analysed' = FALSE
    /\ response' \in Responses
    /\ UNCHANGED <<env, client, mainVars>>

NextAnalyze == Analyze \/ NextCall

SpecAnalyze == InitAnalyze /\ [][NextAnalyze]_vars

\* what the call returned
result == AnalyzeIncident(response)

(***************************************************************************)
(* Construction of the classifier client, from any environment.            *)
(***************************************************************************)
InitConstruct ==
    /\ MainInit
    /\ response \in {TransportError, Completion(<<>>), Completion(<<Malformed>>),
                      Completion(<<Object(JsonString("High"), JsonString("Database"))>>)}
    /\ analysed = FALSE
    /\ env \in Environments
    /\ client = NoClient

\* os.Setenv / os.Unsetenv before the constructor is called (again)
SetKey ==
    /\ client.state # "built"
    /\ env' \in Environments \ {env}
    /\ UNCHANGED <<response, analysed, client, mainVars>>

\* NewOpenAIService(), first call or a call after a recovered panic
Construct ==
    /\ client.state # "built"
    /\ client' = NewOpenAIService(env)
    /\ UNCHANGED <<response, analysed, env, mainVars>>

NextConstruct == SetKey \/ Construct \/ Analyze \/ NextCall

SpecConstruct == InitConstruct /\ [][NextConstruct]_vars

(***************************************************************************)
(* Properties.                                                             *)
(***************************************************************************)
SeverityEnum == {"Low", "Medium", "High", "Critical"}

CategoryEnum ==
    {"Network", "Software", "Hardware", "Security", "Database", "Application",
     "Infrastructure"}

\* the first completion, and the text a member of it carries ("" when it
\* carries none)
FirstChoice == response.Choices[1]

TextOf(f) == IF f.t = "string" THEN f.v ELSE ""

\* the external call succeeded and its first completion decodes without error
ParsedSuccessfully ==
    /\ ~response.err
    /\ Len(response.Choices) > 0
    /\ \/ FirstChoice.json = "null"
       \/ /\ FirstChoice.json = "object"
          /\ FirstChoice.severity.t # "number"
          /\ FirstChoice.category.t # "number"

\* the error a lookup of an absent identifier is to produce
NotFoundWith(id) == [msg |-> "incident not found with id", id |-> id, cause |-> ""]

\* C1: every incident held in the store has its severity in {Low, Medium,
\* High, Critical} and its category in the seven-member category set,
\* whatever text the external model answered and however the requests
\* interleaved.
C1_StoredClassificationInEnum ==
    \A id \in DOMAIN store :
        /\ store[id].ai_severity \in SeverityEnum
        /\ store[id].ai_category \in CategoryEnum

\* a row was classified from an answer whose two texts were both outside the
\* enumerations, and a later update classified another row from a valid one
C1_Witness ==
    \E id \in DOMAIN store :
        /\ store[id].ai_severity = "Medium"
        /\ store[id].ai_category = "Software"
        /\ ret.op = "UpdateIncident"
        /\ ret.err = NoErr

\* C2: when the response parses and its severity is not exactly one of Low,
\* Medium, High, Critical, AnalyzeIncident returns severity Medium and no
\* error, and a category that is a member of the category set is returned
\* unchanged.
C2_InvalidSeverityBecomesMedium ==
    (analysed /\ ParsedSuccessfully /\ TextOf(FirstChoice.severity) \notin SeverityEnum)
        => /\ result.err = NoErr
           /\ ~result.analysis.nil
           /\ result.analysis.Severity = "Medium"
           /\ TextOf(FirstChoice.category) \in CategoryEnum
                  => result.analysis.Category = TextOf(FirstChoice.category)

C2_Witness ==
    /\ analysed
    /\ response = Completion(<<Object(JsonString("Invalid"), JsonString("Database"))>>)
    /\ result.analysis = IncidentAnalysis("Medium", "Database")

\* C3: when the response parses and its category is not a member of the
\* category set, AnalyzeIncident returns category Software and no error,
\* whether or not the severity is valid; a valid severity is returned
\* unchanged.
C3_InvalidCategoryBecomesSoftware ==
    (analysed /\ ParsedSuccessfully /\ TextOf(FirstChoice.category) \notin CategoryEnum)
        => /\ result.err = NoErr
           /\ ~result.analysis.nil
           /\ result.analysis.Category = "Software"
           /\ TextOf(FirstChoice.severity) \in SeverityEnum
                  => result.analysis.Severity = TextOf(FirstChoice.severity)

C3_Witness ==
    /\ analysed
    /\ response = Completion(<<Object(JsonString("High"), JsonString("Invalid"))>>)
    /\ result.analysis = IncidentAnalysis("High", "Software")

\* C4: when the response carries a severity and a category that are both
\* members of their enumerations, AnalyzeIncident returns exactly that pair.
C4_ValidPairUnchanged ==
    (/\ analysed
     /\ ParsedSuccessfully
     /\ TextOf(FirstChoice.severity) \in SeverityEnum
     /\ TextOf(FirstChoice.category) \in CategoryEnum)
        => /\ result.err = NoErr
           /\ result.analysis =
                  IncidentAnalysis(TextOf(FirstChoice.severity), TextOf(FirstChoice.category))

C4_Witness ==
    /\ analysed
    /\ response = Completion(<<Object(JsonString("Critical"), JsonString("Infrastructure"))>>)
    /\ result.analysis = IncidentAnalysis("Critical", "Infrastructure")

\* C10: when the first completion's text is malformed JSON, a JSON object
\* without the severity or the category member, or has a member of the wrong
\* type, AnalyzeIncident returns an error and no result.
C10_ParseFailureIsError ==
    (/\ analysed
     /\ ~response.err
     /\ Len(response.Choices) > 0
     /\ \/ FirstChoice.json = "malformed"
        \/ /\ FirstChoice.json = "object"
           /\ {"absent", "number"} \cap {FirstChoice.severity.t, FirstChoice.category.t} # {})
        => /\ result.err # NoErr
           /\ result.analysis.nil

\* C11: when the external service call returns an error, or a response with
\* an empty choice list, AnalyzeIncident returns an error and a nil result,
\* never a classification.
C11_ExternalFailureIsError ==
    (analysed /\ (response.err \/ Len(response.Choices) = 0))
        => /\ result.err # NoErr
           /\ result.analysis = NilAnalysis
           /\ result.err.msg =
                  (IF response.err
                   THEN "failed to get AI analysis"
                   ELSE "no response from AI service")
           /\ response.err => result.err.cause = response.cause

\* the external call succeeded but carried no choice
C11_Witness ==
    /\ analysed
    /\ response = Completion(<<>>)
    /\ result.analysis.nil
    /\ result.err = [msg |-> "no response from AI service", id |-> 0, cause |-> ""]

\* C13: constructing the classifier client when the API key is absent (not
\* set, or empty) panics and yields no client; when the key is present it
\* yields a client holding that key; so no AnalyzeIncident call runs on a
\* client without credentials.
C13_NoClientWithoutKey ==
    /\ [](client.state = "built" => client.apiKey # "")
    /\ [](analysed => client.state = "built" /\ client.apiKey # "")
    /\ [][client' # client
              => IF env.set /\ env.value # ""
                 THEN client' = [state |-> "built", apiKey |-> env.value]
                 ELSE client'.state = "panicked" /\ ~analysed']_vars

\* the constructor was called with the variable not set
C13_Witness ==
    /\ ~env.set
    /\ client.state = "panicked"

\* the content of a row together with its classification
ContentAndClassification(row) ==
    [Title |-> row.title, Description |-> row.description,
     AffectedService |-> row.affected_service, Severity |-> row.ai_severity,
     Category |-> row.ai_category]

\* C14: in every reachable state, whatever creates and updates interleaved,
\* the severity and category of a row are the result of a classifier call
\* that was made on exactly the title, description and affected service of
\* that row.
C14_ClassificationMatchesContent ==
    \A id \in DOMAIN store : ContentAndClassification(store[id]) \in classified

\* two updates of one row are in progress with different content and
\* different classifications; one has persisted, the other is about to
C14_Witness ==
    /\ ret.op = "UpdateIncident"
    /\ ret.err = NoErr
    /\ \E p \in Procs :
           /\ pc[p] = "update_persist"
           /\ req[p].id = ret.req.id
           /\ req[p].id \in DOMAIN store
           /\ incident[p].Title # store[req[p].id].title
           /\ incident[p].AISeverity # store[req[p].id].ai_severity

\* C15: if a deleteIncident of identifier i completes between the fetch and
\* the persist step of a concurrent updateIncident(i), the update's store
\* call (the statement itself not failing on I/O) returns the not-found
\* error for i, and the row is not re-created: an identifier that was
\* handed out and is no longer in the table never comes back.
C15_DeleteDuringUpdate ==
    [][/\ \A p \in Procs :
              (pc[p] \in {"update_analyze", "update_persist"} /\ req[p].id \notin DOMAIN store)
                  => /\ req[p].id \notin DOMAIN store'
                     /\ (pc[p] = "update_persist" /\ pc'[p] = "idle" /\ ret'.err.cause = "")
                            => /\ ret'.op = "UpdateIncident"
                               /\ ret'.req.id = req[p].id
                               /\ ret'.err = NotFoundWith(req[p].id)
                               /\ ret'.incident.nil
       /\ \A id \in Ids :
              (id < nextId /\ id \notin DOMAIN store) => id \notin DOMAIN store']_vars

\* an updateIncident fetched its row, the row was deleted, and its store call
\* has returned not-found
C15_Witness ==
    /\ ret.op = "UpdateIncident"
    /\ ret.calls.GetByID = 1
    /\ ret.calls.AnalyzeIncident = 1
    /\ ret.calls.Update = 1
    /\ ret.err = NotFoundWith(ret.req.id)
    /\ ret.req.id < nextId
    /\ ret.req.id \notin DOMAIN store

\* C16: when two updateIncident calls on the same identifier interleave and
\* both succeed, the row is the complete record of the call that persisted
\* last: its title, description, affected service, severity, category and
\* update timestamp (at the precision of the column) are all those of the
\* update that returned last, whatever the other update wrote.
C16_LastWriterWinsWhole ==
    (ret.op = "UpdateIncident" /\ ret.err = NoErr)
        => /\ ret.req.id \in DOMAIN store
           /\ ret.incident.ID = ret.req.id
           /\ LET row == store[ret.req.id]
              IN  /\ row.title = ret.req.Title
                  /\ row.description = ret.req.Description
                  /\ row.affected_service = ret.req.AffectedService
                  /\ row.title = ret.incident.Title
                  /\ row.description = ret.incident.Description
                  /\ row.affected_service = ret.incident.AffectedService
                  /\ row.ai_severity = ret.incident.AISeverity
                  /\ row.ai_category = ret.incident.AICategory
                  /\ row.updated_at = Timestamp(ret.incident.UpdatedAt)

\* an update has succeeded on a row that another update had rewritten after
\* the first one's fetch, and the row is the later writer's
C16_Witness ==
    /\ ret.op = "UpdateIncident"
    /\ ret.err = NoErr
    /\ ret.calls.RowChanged = 1
    /\ ret.req.Title = "T1"
    /\ ret.incident.AISeverity = "High"
    /\ store[ret.req.id].title = "T1"
    /\ store[ret.req.id].ai_severity = "High"

\* the step is a step of an updateIncident call
UpdateStep ==
    \/ \E p \in Procs :
           /\ pc'[p] # pc[p]
           /\ {pc[p], pc'[p]} \cap {"update_analyze", "update_persist"} # {}
    \/ served' # served /\ pc' = pc /\ ret'.op = "UpdateIncident"

\* C17: the identifier and the creation timestamp of an incident never
\* change after creation: no step changes the created_at of a row it keeps,
\* and a step of an updateIncident, failing or not, alone or concurrent,
\* leaves the set of stored identifiers and the identifier counter as they
\* were; the incident a successful update returns carries the identifier it
\* was called with and the row's creation timestamp.
C17_IdAndCreatedAtImmutable ==
    [][/\ \A id \in DOMAIN store \cap DOMAIN store' :
              store'[id].created_at = store[id].created_at
       /\ UpdateStep
              => /\ DOMAIN store' = DOMAIN store
                 /\ nextId' = nextId
                 /\ (ret' # ret /\ ret'.err = NoErr)
                        => /\ ret'.incident.ID = ret'.req.id
                           /\ ret'.incident.CreatedAt = store'[ret'.req.id].created_at]_vars

\* a row has been updated in a later second than it was created in
C17_Witness ==
    /\ ret.op = "UpdateIncident"
    /\ ret.err = NoErr
    /\ store[ret.req.id].updated_at > store[ret.req.id].created_at
    /\ ret.incident.CreatedAt = store[ret.req.id].created_at

\* C18: a successful updateIncident(id, title, description, affectedService)
\* whose classification returned (s, c) leaves the row of id holding exactly
\* the three request fields, s and c, and the update timestamp read during
\* the update (after the classification, at the precision of the column);
\* nothing of the previous content or classification survives, created_at is
\* kept, and no other row is changed.
C18_UpdateOverwritesRow ==
    [][\A p \in Procs :
           /\ (pc[p] = "update_analyze" /\ pc'[p] = "update_persist")
                  => /\ incident'[p].Title = req[p].Title
                     /\ incident'[p].Description = req[p].Description
                     /\ incident'[p].AffectedService = req[p].AffectedService
                     /\ incident'[p].UpdatedAt = clock'
                     /\ clock' >= clock
                     /\ [Title |-> req[p].Title, Description |-> req[p].Description,
                         AffectedService |-> req[p].AffectedService,
                         Severity |-> incident'[p].AISeverity,
                         Category |-> incident'[p].AICategory] \in classified'
           /\ (pc[p] = "update_persist" /\ pc'[p] = "idle" /\ ret'.err = NoErr)
                  => /\ req[p].id \in DOMAIN store
                     /\ store' =
                            [store EXCEPT
                                ![req[p].id] =
                                    [title |-> req[p].Title,
                                     description |-> req[p].Description,
                                     affected_service |-> req[p].AffectedService,
                                     ai_severity |-> incident[p].AISeverity,
                                     ai_category |-> incident[p].AICategory,
                                     created_at |-> @.created_at,
                                     updated_at |-> Timestamp(incident[p].UpdatedAt)]]
                     /\ ret'.incident = incident[p]]_vars

\* the only row ever created was classified (High, Database) at some time and
\* a successful update has left it with the other content, (Medium,
\* Software) and a later update timestamp
C18_Witness ==
    /\ ret.op = "UpdateIncident"
    /\ ret.err = NoErr
    /\ nextId = 2
    /\ ret.req.Title = "T2"
    /\ store[1].title = "T2"
    /\ store[1].ai_severity = "Medium"
    /\ store[1].ai_category = "Software"
    /\ store[1].updated_at > store[1].created_at
    /\ [Title |-> "T1", Description |-> "D1", AffectedService |-> "S1",
        Severity |-> "High", Category |-> "Database"] \in classified

\* an identifier that was handed out and whose row has been deleted
Deleted(id) == id < nextId /\ id \notin DOMAIN store

\* C19: after a successful deleteIncident(id) the row is gone outright and
\* all other rows are as they were; from then on (no create is ever assigned
\* that identifier again) a getIncident(id) and a further deleteIncident(id)
\* whose statement does not fail on I/O return not-found, and no
\* getAllIncidents result contains id.
C19_DeletedIsGone ==
    /\ []((ret.op = "DeleteIncident" /\ ret.err = NoErr)
              => /\ ret.req.id \notin DOMAIN store
                 /\ GetByID(ret.req.id, "") = Return(NilIncident, NotFoundWith(ret.req.id))
                 /\ DeleteRowsAffected(ret.req.id) = 0
                 /\ \A order \in GetAllOrders :
                        \A i \in 1..Len(order) : order[i] # ret.req.id)
    /\ [][/\ (served' # served /\ pc' = pc /\ ret'.op = "DeleteIncident" /\ ret'.err = NoErr)
                  => /\ ret'.req.id \in DOMAIN store
                     /\ DOMAIN store' = DOMAIN store \ {ret'.req.id}
                     /\ \A other \in DOMAIN store' : store'[other] = store[other]
                     /\ nextId' = nextId
           /\ \A id \in Ids :
                  Deleted(id)
                      => /\ id \notin DOMAIN store'
                         /\ (/\ served' # served
                             /\ pc' = pc
                             /\ ret'.op \in {"GetIncident", "DeleteIncident"}
                             /\ ret'.req.id = id
                             /\ ret'.err.cause = "")
                                => ret'.err = NotFoundWith(id) /\ ret'.incident.nil
                         /\ (served' # served /\ pc' = pc /\ ret'.op = "GetAllIncidents")
                                => \A i \in 1..Len(ret'.incidents) : ret'.incidents[i].ID # id]_vars

\* a second deleteIncident of an identifier whose row had been deleted
C19_Witness ==
    /\ ret.op = "DeleteIncident"
    /\ ret.err = NotFoundWith(ret.req.id)
    /\ Deleted(ret.req.id)

\* C20: a successful createIncident adds exactly one row, under an identifier
\* the table did not hold, with the request's title, description and
\* affected service and the severity and category the classifier returned
\* for them, leaves every other row as it was, and returns that incident
\* with the identifier the store assigned; when the store's create fails,
\* createIncident returns an error and no incident.
C20_CreateAddsOneRow ==
    [][\A p \in Procs :
           (pc[p] = "create_persist" /\ pc'[p] = "idle")
               => /\ ret'.op = "CreateIncident"
                  /\ ret'.calls.Create = 1
                  /\ IF ret'.err = NoErr
                     THEN LET id == ret'.incident.ID
                          IN  /\ id >= 1
                              /\ id \notin DOMAIN store
                              /\ DOMAIN store' = DOMAIN store \cup {id}
                              /\ \A other \in DOMAIN store : store'[other] = store[other]
                              /\ store'[id].title = req[p].Title
                              /\ store'[id].description = req[p].Description
                              /\ store'[id].affected_service = req[p].AffectedService
                              /\ store'[id].ai_severity = incident[p].AISeverity
                              /\ store'[id].ai_category = incident[p].AICategory
                              /\ ContentAndClassification(store'[id]) \in classified
                              /\ ret'.incident = [incident[p] EXCEPT !.ID = id]
                              /\ ret'.incident.Title = req[p].Title
                              /\ ret'.incident.Description = req[p].Description
                              /\ ret'.incident.AffectedService = req[p].AffectedService
                     ELSE /\ ret'.incident.nil
                          /\ ret'.err.msg = "failed to create incident"]_vars

\* a second incident, classified (High, Database), has been created next to
\* the first
C20_Witness ==
    /\ ret.op = "CreateIncident"
    /\ ret.err = NoErr
    /\ ret.incident.ID = 2
    /\ ret.incident.AISeverity = "High"
    /\ DOMAIN store = {1, 2}
    /\ store[2].ai_category = "Database"

\* a member of a request body is missing (absent or null) or empty
MissingOrEmpty(f) == f.t \in {"absent", "null"} \/ (f.t = "string" /\ f.v = "")

\* a body that cannot be bound, or that lacks one of the three fields
BadBody(body) ==
    \/ body.json = "malformed"
    \/ "number" \in {body.title.t, body.description.t, body.affected_service.t}
    \/ MissingOrEmpty(body.title)
    \/ MissingOrEmpty(body.description)
    \/ MissingOrEmpty(body.affected_service)

HasAllFields(r) == r.Title # "" /\ r.Description # "" /\ r.AffectedService # ""

\* every bad body is answered 400 by both handlers that read one
BadBodiesRejected ==
    \A handler \in WithBody :
        \A param \in ParamsOf(handler), body \in Bodies :
            BadBody(body) => Precheck(handler, param, body).status = 400

\* C21: a POST /incidents or PUT /incidents/{id} request whose body cannot
\* be bound, or in which title, description or affected_service is missing
\* or empty, is answered with status 400 and never reaches the orchestrator:
\* every request the orchestrator works on or has returned from has the
\* three fields, and the step that answers 400 makes no call and leaves the
\* table, the identifier counter and the classifier's history as they were.
C21_BadBodyIs400 ==
    /\ []BadBodiesRejected
    /\ [](/\ \A p \in Procs : pc[p] # "idle" => HasAllFields(req[p])
          /\ ret.op \in WithBody => HasAllFields(ret.req)
          /\ ret.http.status = 400 => ret.op = "" /\ ret.calls = NoCalls /\ ret.err = NoErr)
    /\ [][(served' # served /\ pc' = pc /\ ret'.http.status = 400)
              => /\ store' = store
                 /\ nextId' = nextId
                 /\ classified' = classified
                 /\ calls' = calls
                 /\ req' = req]_vars

\* a PUT with a field missing was answered 400 while the table held a row
C21_Witness ==
    /\ ret.handler = "UpdateIncident"
    /\ ret.http.status = 400
    /\ ret.http.message = "Title, description, and affected service are required"
    /\ ret.calls = NoCalls
    /\ DOMAIN store # {}

\* the step in which a request to this handler is answered at once
Answers(handler) == served' # served /\ pc' = pc /\ ret'.handler = handler

\* C22: GET /incidents/{id} answers 400 without invoking the orchestrator
\* when the id is not an integer, 404 when no incident with that id exists,
\* and 200 with the incident when it exists (and the store can be read).
C22_GetByIdStatuses ==
    /\ [](\A param \in IdParams :
              (\A i \in Ids : ToString(i) # param)
                  => Precheck("GetIncident", param, NoBody)
                         = [status |-> 400, message |-> "Invalid incident ID"])
    /\ [][Answers("GetIncident")
              => /\ ret'.http.status \in {400, 404, 200}
                 /\ ret'.http.status = 400 => ret'.calls = NoCalls
                 /\ ret'.http.status # 400
                        => /\ ret'.calls.GetByID = 1
                           /\ ret'.req.id \notin DOMAIN store
                                  => ret'.http.status = 404 /\ ret'.incident.nil
                           /\ (ret'.req.id \in DOMAIN store /\ ret'.err.cause = "")
                                  => /\ ret'.http.status = 200
                                     /\ ret'.incident = Scan(ret'.req.id, store[ret'.req.id])]_vars

\* GET of an identifier that is not in the (non-empty) table was answered 404
C22_Witness ==
    /\ ret.op = "GetIncident"
    /\ ret.http.status = 404
    /\ ret.req.id \notin DOMAIN store
    /\ ret.err.cause = ""
    /\ DOMAIN store # {}

\* the internal failures an endpoint can meet: I/O failures of its store
\* statements, and the failures of the classifier
StoreFailures(msg) == {[msg |-> msg, id |-> 0, cause |-> f] : f \in DbFaults \ {""}}

ClassifierFailures == {AnalyzeIncident(resp).err : resp \in ServedResponses} \ {NoErr}

FailuresOf(handler) ==
    CASE handler = "CreateIncident" ->
             ClassifierFailures \cup StoreFailures("failed to create incident")
      [] handler = "GetIncident" -> StoreFailures("failed to get incident")
      [] handler = "GetAllIncidents" -> StoreFailures("failed to query incidents")
      [] handler = "UpdateIncident" ->
             ClassifierFailures \cup StoreFailures("failed to get incident")
                 \cup StoreFailures("failed to update incident")
      [] handler = "DeleteIncident" -> StoreFailures("failed to delete incident")
      [] OTHER -> {}

\* C23: on every endpoint that reaches the store (POST, GET list, GET by id,
\* PUT, DELETE) an I/O failure of a store statement is answered with
\* status 500.
C23_StoreFailureIs500 ==
    (ret.calls # NoCalls /\ ret.err.cause \in DbFaults \ {""})
        => ret.http.status = 500

\* C24: an identifier that is absent at lookup, update or delete time is
\* answered 404 on GET, PUT and DELETE /incidents/{id}, and that answer
\* differs from the one given when the store or the classifier fails.
C24_NotFoundIs404 ==
    (/\ ret.op \in {"GetIncident", "UpdateIncident", "DeleteIncident"}
     /\ ret.err = NotFoundWith(ret.req.id))
        => /\ ret.http.status = 404
           /\ \A e \in FailuresOf(ret.op) : Respond(ret.op, e) # ret.http

\* C25: the text of an internal failure is not echoed to the client: had the
\* request that failed on an internal error of the classifier or the store
\* failed on any other of them, the body of the answer would be the same.
C25_BodyIndependentOfFailure ==
    (ret.calls # NoCalls /\ ret.err \in FailuresOf(ret.op))
        => \A e \in FailuresOf(ret.op) : Respond(ret.op, e).message = ret.http.message

\* C26: an updateIncident whose row is in the table from the fetch through
\* the persist step, whose classification succeeded and whose store call
\* does not fail on I/O, succeeds and does not return not-found, whatever the
\* new values are, the values already stored included.
C26_UpdateOfExistingRowSucceeds ==
    [][\A p \in Procs :
           (/\ pc[p] = "update_persist"
            /\ pc'[p] = "idle"
            /\ req[p].id \in DOMAIN store
            /\ ret'.err.cause = "")
               => /\ ret'.err = NoErr
                  /\ ~ret'.incident.nil
                  /\ ret'.http.status = 200]_vars

ReadOnlyCalls(c, name) == c = [NoCalls EXCEPT ![name] = 1]

\* C28: getIncident and getAllIncidents never invoke the classifier and
\* leave every stored row unchanged (content, classification and both
\* timestamps), whether they succeed or fail.
C28_ReadsAreFrameFree ==
    [][/\ (Answers("GetIncident") /\ ret'.http.status # 400)
              => /\ ReadOnlyCalls(ret'.calls, "GetByID")
                 /\ store' = store
                 /\ nextId' = nextId
                 /\ classified' = classified
       /\ Answers("GetAllIncidents")
              => /\ ReadOnlyCalls(ret'.calls, "GetAll")
                 /\ store' = store
                 /\ nextId' = nextId
                 /\ classified' = classified]_vars

\* a read by id has returned a stored incident that an update had touched
C28_Witness ==
    /\ ret.op = "GetIncident"
    /\ ret.err = NoErr
    /\ ret.calls.GetByID = 1
    /\ ret.incident.ID \in DOMAIN store
    /\ ret.incident = Scan(ret.incident.ID, store[ret.incident.ID])
    /\ ret.incident.UpdatedAt # ret.incident.CreatedAt

\* C29: in every reachable state each stored incident's update timestamp is
\* not earlier than its creation timestamp, given a clock that never goes
\* backwards: right after create, which reads the clock twice, and after
\* every successful update.
C29_UpdatedNotBeforeCreated ==
    /\ [](\A id \in DOMAIN store : store[id].updated_at >= store[id].created_at)
    /\ [](\A p \in Procs :
              pc[p] = "create_persist" => incident[p].UpdatedAt >= incident[p].CreatedAt)
    /\ [][clock' >= clock]_vars

\* a successful update has stamped its row later than the row was created
C29_Witness ==
    /\ ret.op = "UpdateIncident"
    /\ ret.err = NoErr
    /\ ret.incident.ID \in DOMAIN store
    /\ store[ret.incident.ID].updated_at = Timestamp(ret.incident.UpdatedAt)
    /\ store[ret.incident.ID].updated_at > store[ret.incident.ID].created_at

\* C30: concurrent successful createIncident calls return incidents with
\* pairwise distinct identifiers, each the one under which that call's own
\* row is stored; no call returns or overwrites another call's row.  Every
\* successful create takes the next identifier, which no row holds and
\* which is above every identifier handed out before, stores its own
\* incident there, returns that incident, and leaves the other rows alone.
C30_CreatesGetOwnRows ==
    /\ [](\A id \in DOMAIN store : id < nextId)
    /\ [][/\ nextId' >= nextId
           /\ \A p \in Procs :
                  (pc[p] = "create_persist" /\ pc'[p] = "idle" /\ ret'.err = NoErr)
                     => /\ ret'.incident = [incident[p] EXCEPT !.ID = nextId]
                        /\ nextId \notin DOMAIN store
                        /\ nextId' > nextId
                        /\ DOMAIN store' = DOMAIN store \cup {nextId}
                        /\ store'[nextId] = Row(incident[p])
                        /\ \A id \in DOMAIN store : store'[id] = store[id]]_vars

\* two creates overlapped: the one that read the clock first stored its row
\* second, under the second identifier, next to the other's row
C30_Witness ==
    /\ ret.op = "CreateIncident"
    /\ ret.err = NoErr
    /\ ret.incident.ID = 2
    /\ {1, 2} \subseteq DOMAIN store
    /\ store[2] = Row(ret.incident)
    /\ store[2].created_at < store[1].created_at
    /\ store[1].title # store[2].title

\* the calls one operation has made show no retry: one external request per
\* classifier call, and no call made twice
NoRetry(h) ==
    /\ h.CreateChatCompletion = h.AnalyzeIncident
    /\ \A name \in {"AnalyzeIncident", "Create", "GetByID", "GetAll", "Update", "Delete"} :
           h[name] <= 1

C5_CreateAbortsOnClassifierFailure ==
    /\ [](ret.op = "CreateIncident" /\ ret.calls.AnalyzeFailed > 0
              => /\ ret.err # NoErr
                 /\ ret.incident.nil
                 /\ ret.calls.Create = 0)
    /\ [][(served' # served /\ pc' = pc /\ ret'.op = "CreateIncident")
              => /\ ret'.calls.AnalyzeFailed = 1
                 /\ store' = store
                 /\ nextId' = nextId]_vars

\* a createIncident has failed on its classification while the table held a row
C5_Witness ==
    /\ ret.op = "CreateIncident"
    /\ ret.calls.AnalyzeFailed = 1
    /\ ret.err.msg = "failed to parse AI response"
    /\ DOMAIN store # {}

\* C6: when the classifier call fails during updateIncident on an existing
\* identifier, updateIncident returns an error, the store's update operation
\* has not been invoked, and the step in which it returns leaves every row,
\* the update timestamp included, as it was.
C6_UpdateAbortsOnClassifierFailure ==
    /\ [](ret.op = "UpdateIncident" /\ ret.calls.AnalyzeFailed > 0
              => /\ ret.err # NoErr
                 /\ ret.incident.nil
                 /\ ret.calls.Update = 0)
    /\ [][\A p \in Procs :
              (pc[p] = "update_analyze" /\ pc'[p] = "idle")
                  => /\ ret'.op = "UpdateIncident"
                     /\ ret'.calls.AnalyzeFailed = 1
                     /\ store' = store]_vars

\* an updateIncident of a stored identifier has failed on its classification
C6_Witness ==
    /\ ret.op = "UpdateIncident"
    /\ ret.calls.AnalyzeFailed = 1
    /\ ret.calls.GetByID = 1
    /\ ret.req.id \in DOMAIN store

\* C7: for an identifier that is not in the store, getIncident,
\* updateIncident and deleteIncident return a not-found error that carries
\* the identifier, and leave the store unchanged (the database itself
\* answering: a statement that fails on I/O reports that failure instead).
\* For updateIncident this covers the identifier being absent at the fetch
\* and at the persist step.
C7_AbsentIdIsNotFound ==
    [][/\ (/\ served' # served
           /\ pc' = pc
           /\ ret'.op \in {"GetIncident", "UpdateIncident", "DeleteIncident"}
           /\ ret'.req.id \notin DOMAIN store
           /\ ret'.err.cause = "")
              => /\ ret'.err = NotFoundWith(ret'.req.id)
                 /\ ret'.incident.nil
                 /\ store' = store
       /\ \A p \in Procs :
              /\ (pc[p] = "idle" /\ pc'[p] = "update_analyze")
                     => req'[p].id \in DOMAIN store
              /\ (/\ pc[p] = "update_persist"
                  /\ pc'[p] = "idle"
                  /\ req[p].id \notin DOMAIN store
                  /\ ret'.err.cause = "")
                     => /\ ret'.err = NotFoundWith(req[p].id)
                        /\ ret'.incident.nil
                        /\ store' = store]_vars

\* getIncident of an identifier that is not in the (non-empty) table
C7_Witness ==
    /\ ret.op = "GetIncident"
    /\ ret.req.id \notin DOMAIN store
    /\ DOMAIN store # {}
    /\ ret.err = NotFoundWith(ret.req.id)

\* C8: when createIncident succeeds, the returned incident carries the three
\* request fields, the classification, both timestamps and the assigned
\* identifier, and a getByID of that identifier, no update or delete having
\* intervened, returns a record equal to it in every field.
C8_CreateThenGetByIDIdentical ==
    (ret.op = "CreateIncident" /\ ret.err = NoErr)
        => /\ ret.incident.ID \in DOMAIN store
           /\ ret.incident.Title = ret.req.Title
           /\ ret.incident.Description = ret.req.Description
           /\ ret.incident.AffectedService = ret.req.AffectedService
           /\ GetByID(ret.incident.ID, "").err = NoErr
           /\ GetByID(ret.incident.ID, "").incident = ret.incident

\* C9: getAllIncidents returns every stored incident exactly once, ordered
\* by creation timestamp descending, whatever the order of the inserts,
\* updates and deletes before the call.
C9_GetAllNewestFirst ==
    [][(served' # served /\ pc' = pc /\ ret'.op = "GetAllIncidents" /\ ret'.err = NoErr)
           => LET l == ret'.incidents
              IN  /\ Len(l) = Cardinality(DOMAIN store)
                  /\ \A id \in DOMAIN store :
                         \E i \in 1..Len(l) : l[i] = Scan(id, store[id])
                  /\ \A i, j \in 1..Len(l) : i < j => l[i].CreatedAt >= l[j].CreatedAt]_vars

\* two incidents listed newest first, the newer one inserted first
C9_Witness ==
    /\ ret.op = "GetAllIncidents"
    /\ Len(ret.incidents) = 2
    /\ ret.incidents[1].CreatedAt > ret.incidents[2].CreatedAt
    /\ ret.incidents[1].ID < ret.incidents[2].ID

=============================================================================
